---- MODULE Spec2Model ----
(***************************************************************************)
(* Model of the resource-monitored pipeline orchestration engine of the    *)
(* Content-Creator-Tool repository:                                        *)
(*   layers/middleware/monitoring.py   MetricsCollector, ResourceMonitor,  *)
(*                                     PerformanceMonitor                  *)
(*   apps/content/enhanced_services.py the three-stage pipeline            *)
(*   apps/content/services.py          stage functions, batch creation     *)
(*   apps/content/controllers.py       batch admission                     *)
(*   layers/ai/*.py                    pools of the batch generators       *)
(*                                                                         *)
(* The external generators (script, voiceover) and the persistence layer   *)
(* are opaque collaborators: a call to one of them ends with an outcome    *)
(* chosen nondeterministically (it returns a successful result, returns a  *)
(* failed result, or raises).  The payload of a successful result is not   *)
(* modelled beyond the keys the callers copy out of it.                    *)
(*                                                                         *)
(* The module holds several specifications over one set of variables; each *)
(* specification leaves the variables of the other parts at their initial  *)
(* values.                                                                 *)
(***************************************************************************)
EXTENDS Integers, Sequences, FiniteSets, TLC

VARIABLES
    \* ---- ResourceMonitor (monitoring.py:114-138) ----
    maxWorkers,   \* the max_workers the monitor was constructed with
    sem,          \* value of self.semaphore
    epc,          \* per caller: position inside execute_with_monitoring
    func,         \* per caller: func.__name__ of the work of the current call
    attempts,     \* per caller: invocations of func made by the current call
    timedOut,     \* per caller: the current attempt has run past the timeout
    ncalls,       \* number of execute_with_monitoring calls made so far
    callId,       \* per caller: which call it is in (its args), 0 when in none
    rmMetrics,    \* self.metrics_collector.metrics of the monitor
    \* ---- MetricsCollector under threads (monitoring.py:13-38) ----
    mcMetrics,    \* self.metrics: operation -> list of recorded entries
    mcLock,       \* holder of self._lock, 0 when free
    tpc,          \* per thread: position inside record_metric
    tcall,        \* per thread: the record_metric call it is making
    tmiss,        \* per thread: self.metrics[operation] found the key missing
    recOp,        \* per record_metric call made: its operation argument
    recDone,      \* the record_metric calls that have returned
    \* ---- MetricsCollector record / get / clear (monitoring.py:13-38) ----
    cmap,         \* self.metrics: operation -> the list object stored for it
    heap,         \* list object -> its entries (only objects still referenced)
    ret,          \* what the latest get_metrics call handed to its caller
    phase,        \* recording, cleared, or cleared and read since
    nrec,         \* record_metric calls made
    nops,         \* collector operations and caller writes made so far
    \* ---- pipeline runs (enhanced_services.py:72-128) ----
    req,          \* per run: the fields present in the request
    ppc,          \* per run: position inside create_content_with_pipeline
    stage,        \* per run: the stage whose execute call is the current one
    ctx,          \* per run: the context dictionary of _execute_pipeline
    hist,         \* per run and stage: not started, started, or how it ended
    result,       \* per run: the ServiceResult handed to the caller
    \* ---- batch creation (controllers.py:87-112, services.py:296-391) ----
    bLen,         \* len(batch_data)
    bOut,         \* per request: what will go wrong for it, if anything
    bpc,          \* position inside the batch operation
    scriptRes,    \* script_results.data
    voiceRes,     \* voiceover_results.data
    bResult,      \* the ServiceResult of the batch operation
    scriptCalls,  \* calls of the script generator made for the batch
    voiceCalls,   \* calls of the voiceover generator made for the batch
    writes,       \* Content.objects.create calls made for the batch
    bMetrics,     \* monitor.metrics of the BatchMonitor of the batch
    inFlight,     \* generator calls now running in threads of the batch's pool
    creators,     \* the items of batch_data that have a 'creator' key
    \* PerformanceMonitor.monitor: calls of decorated functions
    wpc,          \* position of each caller of a decorated function
    wname,        \* the operation_name of the decorator of the function it called
    wid,          \* number of its call, 0 when it is in none
    wout,         \* how the wrapped function ended in this call
    wflag,        \* the wrapper's local variable success
    wcalls,       \* calls of decorated functions made so far
    pmMetrics     \* self.metrics of the PerformanceMonitor's collector

monVars == <<maxWorkers, sem, epc, func, attempts, timedOut, ncalls, callId, rmMetrics>>
recVars == <<mcMetrics, mcLock, tpc, tcall, tmiss, recOp, recDone>>
colVars == <<cmap, heap, ret, phase, nrec, nops>>
pipeVars == <<req, ppc, stage, ctx, hist, result>>
batchVars == <<bLen, bOut, bpc, scriptRes, voiceRes, bResult, scriptCalls, voiceCalls, writes,
               bMetrics, inFlight, creators>>
perfVars == <<wpc, wname, wid, wout, wflag, wcalls, pmMetrics>>

vars == <<monVars, recVars, colVars, pipeVars, batchVars, perfVars>>

(***************************************************************************)
(* Bounds of the model.                                                    *)
(***************************************************************************)
NumCallers == 2
MaxWorkers == 2
MaxCalls == 2
NumThreads == 3
MaxRecords == 4
MaxColOps == 5
NumRuns == 2
MaxBatchLen == 51
VaryLen == 3
NumCpus == 1
NumWrapCallers == 2
MaxWrapCalls == 3

(***************************************************************************)
(* Program constants.                                                      *)
(***************************************************************************)
\* CONTENT_SETTINGS, the 'content' category of the settings manager.
ContentSettings ==
    [max_batch_size |-> 50, processing_timeout |-> 300, max_retries |-> 3,
     chunk_size |-> 1024 * 1024]

\* dict.get(key, default) on the content settings
ContentSetting(key, default) ==
    IF key \in DOMAIN ContentSettings THEN ContentSettings[key] ELSE default

\* RESOURCE_MONITOR_SETTINGS, the 'resource_monitor' category.
ResourceMonitorSettings ==
    [max_workers |-> 4, max_queue_size |-> 100, monitor_interval |-> 5]

\* The max_workers the container builds the shared ResourceMonitor with:
\* get_resource_limits().get('max_workers', 4)
ConfiguredMaxWorkers ==
    IF "max_workers" \in DOMAIN ResourceMonitorSettings
    THEN ResourceMonitorSettings["max_workers"] ELSE 4

\* content_settings['max_retries'], handed to execute_with_monitoring as the
\* keyword argument max_retries by _execute_pipeline.
MaxRetries == ContentSettings["max_retries"]

Callers == 1..NumCallers

\* The work function each caller hands to the monitor (its __name__); callers
\* of the same parity pass the same function.
WorkOf(p) == IF p % 2 = 1 THEN "work_a" ELSE "work_b"

\* How an awaited work function can end: it returns a successful result,
\* returns a failed ServiceResult, raises an Exception, or the task awaiting
\* it is cancelled (asyncio.CancelledError, a BaseException).
WorkOutcomes == {"ok", "failed", "raise", "cancel"}

\* Positions of a caller after its execute_with_monitoring call has ended.
EndStates == {"returned_ok", "returned_failed", "raised", "cancelled"}

EndOf(out) ==
    CASE out = "ok" -> "returned_ok"
      [] out = "failed" -> "returned_failed"
      [] out = "raise" -> "raised"
      [] OTHER -> "cancelled"

(***************************************************************************)
(* MetricsCollector.record_metric as one atomic step: the entry is         *)
(* appended to the list of its operation; self.metrics is a                *)
(* defaultdict(list), so a missing key is created.                         *)
(***************************************************************************)
RecordUnlessRaised(m, op, entry) ==
    IF ~entry.success THEN m
    ELSE IF op \in DOMAIN m
         THEN [m EXCEPT ![op] = Append(@, entry)]
         ELSE m @@ (op :> <<entry>>)
RecordMetric(m, op, entry) ==
    IF op \in DOMAIN m
    THEN [m EXCEPT ![op] = Append(@, entry)]
    ELSE m @@ (op :> <<entry>>)

\* Number of entries stored in a collector.
RECURSIVE SumLen(_, _)
SumLen(m, ops) ==
    IF ops = {} THEN 0
    ELSE LET o == CHOOSE x \in ops : TRUE
         IN Len(m[o]) + SumLen(m, ops \ {o})

TotalMetrics(m) == SumLen(m, DOMAIN m)

(***************************************************************************)
(* ResourceMonitor.execute_with_monitoring(func, *args, **kwargs).         *)
(* Every keyword argument, timeout and max_retries included, is forwarded  *)
(* to func; the monitor itself reads none of them.                         *)
(***************************************************************************)

\* asyncio.Semaphore.acquire proceeds only while the value is positive.
SlotAlwaysFree == TRUE
SlotFree == sem > 0

\* "async with self.semaphore" releases on every way out of the block.
ReleaseUnlessCancelled(out) == IF out = "cancel" THEN 0 ELSE 1
ReleaseOnReturnOnly(out) == IF out \in {"ok", "failed"} THEN 1 ELSE 0
ReleaseOn(out) == 1

\* The entry record_metric stores: the success flag and the metadata, which
\* holds the arguments of the call (duration and timestamp are left out).
MetricEntry(success, call) == [success |-> success, call |-> call]

\* success starts True and is set False only by "except Exception".
SuccessFlag(out) == out # "raise"

\* The caller enters execute_with_monitoring and reaches the semaphore.
ExecCall(p, f) ==
    /\ epc[p] = "idle"
    /\ ncalls < MaxCalls
    /\ epc' = [epc EXCEPT ![p] = "waiting"]
    /\ func' = [func EXCEPT ![p] = f]
    /\ attempts' = [attempts EXCEPT ![p] = 0]
    /\ timedOut' = [timedOut EXCEPT ![p] = FALSE]
    /\ ncalls' = ncalls + 1
    /\ callId' = [callId EXCEPT ![p] = ncalls + 1]
    /\ UNCHANGED <<maxWorkers, sem, rmMetrics>>

\* The semaphore admits the caller, which starts awaiting func(*args, **kwargs).
ExecAdmit(p) ==
    /\ epc[p] = "waiting"
    /\ SlotFree
    /\ sem' = sem - 1
    /\ epc' = [epc EXCEPT ![p] = "running"]
    /\ attempts' = [attempts EXCEPT ![p] = @ + 1]
    /\ UNCHANGED <<maxWorkers, func, timedOut, ncalls, callId, rmMetrics>>

\* Where the callers are once the work of p is past its deadline: the
\* monitor takes no timeout and cancels nothing, so everyone is where it was.
DeadlineCancelsOthers(p, e) ==
    [q \in DOMAIN e |->
        IF q # p /\ e[q] \in {"waiting", "running"} THEN "cancelled" ELSE e[q]]
PositionsAfterDeadline(p, e) == e

\* Time passes: the running work is now past the timeout it was given.
\* Nothing in the monitor reacts to it.
ExecDeadline(p) ==
    /\ epc[p] = "running"
    /\ ~timedOut[p]
    /\ timedOut' = [timedOut EXCEPT ![p] = TRUE]
    /\ epc' = PositionsAfterDeadline(p, epc)
    /\ UNCHANGED <<maxWorkers, sem, func, attempts, ncalls, callId, rmMetrics>>

\* The awaited work ends; the finally block records one metric and the
\* "async with" gives the slot back, with no suspension point in between.
ExecFinish(p, out) ==
    /\ epc[p] = "running"
    /\ rmMetrics' = RecordMetric(rmMetrics, func[p], MetricEntry(SuccessFlag(out), callId[p]))
    /\ sem' = sem + ReleaseOn(out)
    /\ epc' = [epc EXCEPT ![p] = EndOf(out)]
    /\ UNCHANGED <<maxWorkers, func, attempts, timedOut, ncalls, callId>>

\* The task is cancelled while it waits for a slot: acquire raises
\* CancelledError before the block is entered.
ExecCancelWaiting(p) ==
    /\ epc[p] = "waiting"
    /\ epc' = [epc EXCEPT ![p] = "cancelled"]
    /\ UNCHANGED <<maxWorkers, sem, func, attempts, timedOut, ncalls, callId, rmMetrics>>

\* The caller has its result (or exception) and may call again.
ExecDone(p) ==
    /\ epc[p] \in EndStates
    /\ epc' = [epc EXCEPT ![p] = "idle"]
    /\ func' = [func EXCEPT ![p] = "none"]
    /\ attempts' = [attempts EXCEPT ![p] = 0]
    /\ timedOut' = [timedOut EXCEPT ![p] = FALSE]
    /\ callId' = [callId EXCEPT ![p] = 0]
    /\ UNCHANGED <<maxWorkers, sem, ncalls, rmMetrics>>

\* The monitor when a specification does not exercise it.
MonOff ==
    /\ maxWorkers = 1
    /\ sem = 1
    /\ epc = <<>>
    /\ func = <<>>
    /\ attempts = <<>>
    /\ timedOut = <<>>
    /\ ncalls = 0
    /\ callId = <<>>
    /\ rmMetrics = <<>>

\* The threaded collector when a specification does not exercise it.
RecOff ==
    /\ mcMetrics = <<>>
    /\ mcLock = 0
    /\ tpc = <<>>
    /\ tcall = <<>>
    /\ tmiss = <<>>
    /\ recOp = <<>>
    /\ recDone = {}

\* The record / get / clear collector when a specification does not
\* exercise it.
ColOff ==
    /\ cmap = <<>>
    /\ heap = <<>>
    /\ ret = [kind |-> "off"]
    /\ phase = "off"
    /\ nrec = 0
    /\ nops = 0

\* The pipeline when a specification does not exercise it.
PipeOff ==
    /\ req = <<>>
    /\ ppc = <<>>
    /\ stage = <<>>
    /\ ctx = <<>>
    /\ hist = <<>>
    /\ result = <<>>

\* The batch operation when a specification does not exercise it.
BatchOff ==
    /\ bLen = 0
    /\ bOut = <<>>
    /\ bpc = "off"
    /\ scriptRes = <<>>
    /\ voiceRes = <<>>
    /\ bResult = <<>>
    /\ scriptCalls = 0
    /\ voiceCalls = 0
    /\ writes = 0
    /\ bMetrics = <<>>
    /\ inFlight = 0
    /\ creators = {}

\* The performance monitor when a specification does not exercise it.
PerfOff ==
    /\ wpc = <<>>
    /\ wname = <<>>
    /\ wid = <<>>
    /\ wout = <<>>
    /\ wflag = <<>>
    /\ wcalls = 0
    /\ pmMetrics = <<>>

MonInit ==
    /\ maxWorkers \in 1..MaxWorkers
    /\ sem = maxWorkers
    /\ epc = [p \in Callers |-> "idle"]
    /\ func = [p \in Callers |-> "none"]
    /\ attempts = [p \in Callers |-> 0]
    /\ timedOut = [p \in Callers |-> FALSE]
    /\ ncalls = 0
    /\ callId = [p \in Callers |-> 0]
    /\ rmMetrics = <<>>

MonNext ==
    \/ \E p \in Callers : ExecCall(p, WorkOf(p)) /\ UNCHANGED <<colVars, recVars, pipeVars, batchVars, perfVars>>
    \/ \E p \in Callers : ExecAdmit(p) /\ UNCHANGED <<colVars, recVars, pipeVars, batchVars, perfVars>>
    \/ \E p \in Callers : ExecDeadline(p) /\ UNCHANGED <<colVars, recVars, pipeVars, batchVars, perfVars>>
    \/ \E p \in Callers, out \in WorkOutcomes :
            ExecFinish(p, out) /\ UNCHANGED <<colVars, recVars, pipeVars, batchVars, perfVars>>
    \/ \E p \in Callers : ExecCancelWaiting(p) /\ UNCHANGED <<colVars, recVars, pipeVars, batchVars, perfVars>>
    \/ \E p \in Callers : ExecDone(p) /\ UNCHANGED <<colVars, recVars, pipeVars, batchVars, perfVars>>

MonitorInit == MonInit /\ RecOff /\ ColOff /\ PipeOff /\ BatchOff /\ PerfOff

SpecMonitor == MonitorInit /\ [][MonNext]_vars

\* The monitor under the scheduling the claim of progress assumes: every
\* admitted work eventually ends (it returns, raises or is cancelled), and
\* the semaphore wakes its waiters in the order they arrived, so a waiter is
\* not passed over for ever while slots keep coming free.
WorkEnds(p) ==
    \E out \in WorkOutcomes :
        ExecFinish(p, out) /\ UNCHANGED <<colVars, recVars, pipeVars, batchVars, perfVars>>

WaiterAdmitted(p) ==
    ExecAdmit(p) /\ UNCHANGED <<colVars, recVars, pipeVars, batchVars, perfVars>>

\* The steps of the monitor itself: the passing of a deadline, to which
\* nothing in the monitor reacts, is left out.
MonProgressNext ==
    \/ \E p \in Callers : ExecCall(p, WorkOf(p)) /\ UNCHANGED <<colVars, recVars, pipeVars, batchVars, perfVars>>
    \/ \E p \in Callers : ExecAdmit(p) /\ UNCHANGED <<colVars, recVars, pipeVars, batchVars, perfVars>>
    \/ \E p \in Callers, out \in WorkOutcomes :
            ExecFinish(p, out) /\ UNCHANGED <<colVars, recVars, pipeVars, batchVars, perfVars>>
    \/ \E p \in Callers : ExecCancelWaiting(p) /\ UNCHANGED <<colVars, recVars, pipeVars, batchVars, perfVars>>
    \/ \E p \in Callers : ExecDone(p) /\ UNCHANGED <<colVars, recVars, pipeVars, batchVars, perfVars>>

SpecMonitorFair ==
    /\ MonitorInit
    /\ [][MonProgressNext]_vars
    /\ \A p \in Callers : WF_vars(WorkEnds(p)) /\ SF_vars(WaiterAdmitted(p))

Running == {p \in DOMAIN epc : epc[p] = "running"}

\* C1: on a monitor built with max_workers = K, the number of work functions
\* that have started and not yet returned or raised never exceeds K.
C1_BoundedConcurrency == Cardinality(Running) <= maxWorkers

\* C1 witness: with K = 1 one work is running and a second caller is held
\* back at the semaphore.
C1_Witness ==
    /\ maxWorkers = 1
    /\ \E p, q \in Callers : epc[p] = "running" /\ epc[q] = "waiting"

\* C9: every slot taken is given back when the call ends, however it ends: the
\* free slots are always max_workers minus the works now running, so once no
\* work is running the whole budget is free again.
C9_SlotsReleased == sem = maxWorkers - Cardinality(Running)

\* C9 witness: a call ended by raising, another by cancellation, none is
\* running, and the budget is whole.
C9_Witness ==
    /\ \E p, q \in Callers : epc[p] = "raised" /\ epc[q] = "cancelled" /\ attempts[q] = 1
    /\ Running = {}
    /\ sem = maxWorkers

\* C22: a caller that finds every slot taken waits without its work being
\* started (no work starts while no slot is free, and a waiting caller only
\* goes on by being admitted or cancelled), and, given that every admitted
\* work ends, every waiting caller gets past the semaphore and its call ends.
C22_WaitersProgress ==
    /\ [](\A p \in Callers : epc[p] = "waiting" => attempts[p] = 0)
    /\ [][/\ sem = 0 => Running' \subseteq Running
          /\ \A p \in Callers :
                epc[p] = "waiting" => epc'[p] \in {"waiting", "running", "cancelled"}]_vars
    /\ \A p \in Callers : (epc[p] = "waiting") ~> (epc[p] \in EndStates)

\* C22 witness: every slot is taken and a caller waits with its work not
\* started.
C22_Witness ==
    /\ sem = 0
    /\ Cardinality(Running) = maxWorkers
    /\ \E p \in Callers : epc[p] = "waiting" /\ attempts[p] = 0

\* The work of q returns a successful result.
CompletesOk(q) ==
    ExecFinish(q, "ok") /\ UNCHANGED <<colVars, recVars, pipeVars, batchVars, perfVars>>

C4_TimeoutAfterAllRetries ==
    \A p \in Callers :
        (epc[p] \in EndStates /\ timedOut[p]) =>
            /\ attempts[p] = MaxRetries + 1
            /\ epc[p] # "returned_ok"

\* C13 as claimed: a failed attempt of the work is followed by another attempt
\* while retries are left, so a call hands the work's failure to its caller
\* only after max_retries + 1 invocations (a work that fails k <= max_retries
\* times and then would succeed is invoked k + 1 times).
C13_RetryOnFailure ==
    \A p \in Callers :
        epc[p] \in {"returned_failed", "raised"} => attempts[p] = MaxRetries + 1

\* Where in collector m the entries of call c are stored: <<operation, index>>.
EntriesOf(m, c) ==
    {x \in UNION {{<<op, i>> : i \in 1..Len(m[op])} : op \in DOMAIN m} :
        m[x[1]][x[2]].call = c}

C15_FlagIsOutcome ==
    \A p \in Callers :
        epc[p] \in {"returned_ok", "returned_failed", "raised"} =>
            \A x \in EntriesOf(rmMetrics, callId[p]) :
                rmMetrics[x[1]][x[2]].success = (epc[p] = "returned_ok")

(***************************************************************************)
(* MetricsCollector.record_metric called from several threads.  The body   *)
(* "self.metrics[operation].append(entry)" runs under "with self._lock";   *)
(* it is modelled in the two steps a thread takes inside the lock: the     *)
(* defaultdict lookup, which notes whether the key is missing, and the     *)
(* append, which first installs a fresh list for a key found missing.      *)
(* An entry is represented by the number of the call that recorded it.     *)
(***************************************************************************)
Threads == 1..NumThreads
Ops == {"op_a", "op_b"}

\* threading.Lock: acquire proceeds only while no thread holds it.
LockAlwaysFree == TRUE
LockFree == mcLock = 0

\* A thread calls record_metric(operation, ...) and reaches "with self._lock".
RecCall(t, op) ==
    /\ tpc[t] = "idle"
    /\ Len(recOp) < MaxRecords
    /\ recOp' = Append(recOp, op)
    /\ tcall' = [tcall EXCEPT ![t] = Len(recOp) + 1]
    /\ tpc' = [tpc EXCEPT ![t] = "acquire"]
    /\ UNCHANGED <<mcMetrics, mcLock, tmiss, recDone>>

RecAcquire(t) ==
    /\ tpc[t] = "acquire"
    /\ LockFree
    /\ mcLock' = t
    /\ tpc' = [tpc EXCEPT ![t] = "lookup"]
    /\ UNCHANGED <<mcMetrics, tcall, tmiss, recOp, recDone>>

\* self.metrics[operation]: the defaultdict finds the key or not.
RecLookup(t) ==
    /\ tpc[t] = "lookup"
    /\ tmiss' = [tmiss EXCEPT ![t] = recOp[tcall[t]] \notin DOMAIN mcMetrics]
    /\ tpc' = [tpc EXCEPT ![t] = "append"]
    /\ UNCHANGED <<mcMetrics, mcLock, tcall, recOp, recDone>>

\* The list (a fresh one, installed under the key, when the key was missing)
\* gets the entry; the with block ends and the lock is released.
RecAppend(t) ==
    /\ tpc[t] = "append"
    /\ LET op == recOp[tcall[t]]
       IN mcMetrics' =
            IF tmiss[t] \/ op \notin DOMAIN mcMetrics
            THEN (op :> <<tcall[t]>>) @@ mcMetrics
            ELSE [mcMetrics EXCEPT ![op] = Append(@, tcall[t])]
    /\ mcLock' = 0
    /\ recDone' = recDone \cup {tcall[t]}
    /\ tpc' = [tpc EXCEPT ![t] = "idle"]
    /\ UNCHANGED <<tcall, tmiss, recOp>>

RecInit ==
    /\ mcMetrics = <<>>
    /\ mcLock = 0
    /\ tpc = [t \in Threads |-> "idle"]
    /\ tcall = [t \in Threads |-> 0]
    /\ tmiss = [t \in Threads |-> FALSE]
    /\ recOp = <<>>
    /\ recDone = {}

RecNext ==
    \/ \E t \in Threads, op \in Ops : RecCall(t, op) /\ UNCHANGED <<colVars, monVars, pipeVars, batchVars, perfVars>>
    \/ \E t \in Threads : RecAcquire(t) /\ UNCHANGED <<colVars, monVars, pipeVars, batchVars, perfVars>>
    \/ \E t \in Threads : RecLookup(t) /\ UNCHANGED <<colVars, monVars, pipeVars, batchVars, perfVars>>
    \/ \E t \in Threads : RecAppend(t) /\ UNCHANGED <<colVars, monVars, pipeVars, batchVars, perfVars>>

RecordInit == RecInit /\ MonOff /\ ColOff /\ PipeOff /\ BatchOff /\ PerfOff

SpecRecord == RecordInit /\ [][RecNext]_vars

\* How many times the entry of call k is stored under operation op.
Stored(k, op) ==
    IF op \in DOMAIN mcMetrics
    THEN Cardinality({i \in 1..Len(mcMetrics[op]) : mcMetrics[op][i] = k})
    ELSE 0

\* C6: under any interleaving of concurrent record_metric calls, the entry of
\* every call that has returned is stored exactly once, under its own
\* operation name and under no other, and the collector holds as many
\* entries as calls have returned.
C6_NoLostNoDuplicate ==
    /\ \A k \in recDone :
          \A op \in Ops : Stored(k, op) = (IF op = recOp[k] THEN 1 ELSE 0)
    /\ TotalMetrics(mcMetrics) = Cardinality(recDone)

\* C6 witness: two calls under different names have returned and both
\* entries are stored, while a third call is inside the lock and a fourth
\* waits for it.
C6_Witness ==
    /\ \E j, k \in recDone :
          recOp[j] # recOp[k] /\ Stored(j, recOp[j]) = 1 /\ Stored(k, recOp[k]) = 1
    /\ \E t, u \in Threads : tpc[t] = "acquire" /\ tpc[u] = "append" /\ mcLock = u

(***************************************************************************)
(* MetricsCollector.record_metric, get_metrics and clear_metrics called    *)
(* one after the other (each runs under self._lock), and what the caller   *)
(* holds afterwards.  Python lists are objects: self.metrics maps an       *)
(* operation to a list object, and a value handed out by get_metrics may   *)
(* refer to the same objects.  A recorded entry is "m"; an entry a caller  *)
(* writes into a list it holds is "x".                                     *)
(***************************************************************************)
ListIds == 1..(2 * MaxColOps)

Range(f) == {f[k] : k \in DOMAIN f}

\* The least identity not in use, for a list object that is created.
FreshId(h) == CHOOSE i \in ListIds : i \notin DOMAIN h /\ \A j \in ListIds : j < i => j \in DOMAIN h

\* The list objects a returned value refers to.
Held(r) == IF r.kind = "dict" THEN Range(r.map) ELSE {}

\* Objects referenced neither by self.metrics nor by the caller are gone.
Gc(h, cm, r) == [i \in (DOMAIN h) \cap (Range(cm) \cup Held(r)) |-> h[i]]

\* A mapping with its list objects replaced by their entries.
Deref(m, h) == [op \in DOMAIN m |-> h[m[op]]]

\* What get_metrics() hands out now, by value.
GetAllView == Deref(cmap, heap)

\* self.metrics[operation] on the defaultdict(list): the stored list, or a
\* fresh empty list installed under the key when the key is missing.
LookupMap(cm, h, op) == IF op \in DOMAIN cm THEN cm ELSE cm @@ (op :> FreshId(h))
LookupHeap(cm, h, op) == IF op \in DOMAIN cm THEN h ELSE h @@ (FreshId(h) :> <<>>)

\* dict(l) of a list l of entries: an empty list gives {}; an entry is a
\* dict of four keys, not a key/value pair, so a list with entries makes
\* dict() raise ValueError.
DictOfList(l) == IF l = <<>> THEN [kind |-> "dict", map |-> <<>>]
                 ELSE [kind |-> "raised", error |-> "ValueError"]

\* dict(self.metrics): a new dict with the same keys and the same list objects.
DictOfMetrics(cm) == [kind |-> "dict", map |-> cm]

\* record_metric(operation, ...)
ColRecord(op) ==
    /\ nops < MaxColOps
    /\ LET cm == LookupMap(cmap, heap, op)
           h == LookupHeap(cmap, heap, op)
       IN /\ cmap' = cm
          /\ heap' = [h EXCEPT ![cm[op]] = Append(@, "m")]
    /\ phase' = "recording"
    /\ nrec' = nrec + 1
    /\ nops' = nops + 1
    /\ UNCHANGED ret

\* get_metrics() without an operation
ColGetAll ==
    /\ nops < MaxColOps
    /\ ret' = DictOfMetrics(cmap)
    /\ heap' = Gc(heap, cmap, ret')
    /\ phase' = IF phase = "recording" THEN phase ELSE "cleared_read"
    /\ nops' = nops + 1
    /\ UNCHANGED <<cmap, nrec>>

\* get_metrics(operation)
ColGetOp(op) ==
    /\ nops < MaxColOps
    /\ LET cm == LookupMap(cmap, heap, op)
           h == LookupHeap(cmap, heap, op)
       IN /\ cmap' = cm
          /\ ret' = DictOfList(h[cm[op]])
          /\ heap' = Gc(h, cm, ret')
    /\ phase' = IF phase = "recording" THEN phase ELSE "cleared_read"
    /\ nops' = nops + 1
    /\ UNCHANGED nrec

\* clear_metrics(): self.metrics.clear()
ClearKeepsLists(cm) == cm
ClearedMap(cm) == <<>>

ColClear ==
    /\ nops < MaxColOps
    /\ cmap' = ClearedMap(cmap)
    /\ heap' = Gc(heap, cmap', ret)
    /\ phase' = "cleared"
    /\ nops' = nops + 1
    /\ UNCHANGED <<ret, nrec>>

\* The caller writes to the value it got: it appends an entry to one of the
\* lists in it,
CallerAppend(op) ==
    /\ nops < MaxColOps
    /\ ret.kind = "dict"
    /\ op \in DOMAIN ret.map
    /\ heap' = [heap EXCEPT ![ret.map[op]] = Append(@, "x")]
    /\ nops' = nops + 1
    /\ UNCHANGED <<cmap, ret, phase, nrec>>

\* removes the last entry of one of the lists,
CallerPop(op) ==
    /\ nops < MaxColOps
    /\ ret.kind = "dict"
    /\ op \in DOMAIN ret.map
    /\ heap[ret.map[op]] # <<>>
    /\ heap' = [heap EXCEPT ![ret.map[op]] = SubSeq(@, 1, Len(@) - 1)]
    /\ nops' = nops + 1
    /\ UNCHANGED <<cmap, ret, phase, nrec>>

\* adds a key with a list of its own,
CallerAddKey(op) ==
    /\ nops < MaxColOps
    /\ ret.kind = "dict"
    /\ op \notin DOMAIN ret.map
    /\ ret' = [ret EXCEPT !.map = @ @@ (op :> FreshId(heap))]
    /\ heap' = heap @@ (FreshId(heap) :> <<"x">>)
    /\ nops' = nops + 1
    /\ UNCHANGED <<cmap, phase, nrec>>

\* or removes a key.
CallerDelKey(op) ==
    /\ nops < MaxColOps
    /\ ret.kind = "dict"
    /\ op \in DOMAIN ret.map
    /\ ret' = [ret EXCEPT !.map = [o \in (DOMAIN @) \ {op} |-> @[o]]]
    /\ heap' = Gc(heap, cmap, ret')
    /\ nops' = nops + 1
    /\ UNCHANGED <<cmap, phase, nrec>>

ColInit ==
    /\ cmap = <<>>
    /\ heap = <<>>
    /\ ret = [kind |-> "none"]
    /\ phase = "recording"
    /\ nrec = 0
    /\ nops = 0

ColNext ==
    \/ \E op \in Ops : ColRecord(op) /\ UNCHANGED <<monVars, recVars, pipeVars, batchVars, perfVars>>
    \/ ColGetAll /\ UNCHANGED <<monVars, recVars, pipeVars, batchVars, perfVars>>
    \/ \E op \in Ops : ColGetOp(op) /\ UNCHANGED <<monVars, recVars, pipeVars, batchVars, perfVars>>
    \/ ColClear /\ UNCHANGED <<monVars, recVars, pipeVars, batchVars, perfVars>>

CallerWrites ==
    \/ \E op \in Ops : CallerAppend(op) /\ UNCHANGED <<monVars, recVars, pipeVars, batchVars, perfVars>>
    \/ \E op \in Ops : CallerPop(op) /\ UNCHANGED <<monVars, recVars, pipeVars, batchVars, perfVars>>
    \/ \E op \in Ops : CallerAddKey(op) /\ UNCHANGED <<monVars, recVars, pipeVars, batchVars, perfVars>>
    \/ \E op \in Ops : CallerDelKey(op) /\ UNCHANGED <<monVars, recVars, pipeVars, batchVars, perfVars>>

SnapNext ==
    \/ \E op \in Ops : ColRecord(op) /\ UNCHANGED <<monVars, recVars, pipeVars, batchVars, perfVars>>
    \/ ColGetAll /\ UNCHANGED <<monVars, recVars, pipeVars, batchVars, perfVars>>
    \/ \E op \in Ops : ColGetOp(op) /\ UNCHANGED <<monVars, recVars, pipeVars, batchVars, perfVars>>
    \/ ColClear /\ UNCHANGED <<monVars, recVars, pipeVars, batchVars, perfVars>>
    \/ \E op \in Ops : CallerAppend(op) /\ UNCHANGED <<monVars, recVars, pipeVars, batchVars, perfVars>>
    \/ \E op \in Ops : CallerPop(op) /\ UNCHANGED <<monVars, recVars, pipeVars, batchVars, perfVars>>
    \/ \E op \in Ops : CallerAddKey(op) /\ UNCHANGED <<monVars, recVars, pipeVars, batchVars, perfVars>>
    \/ \E op \in Ops : CallerDelKey(op) /\ UNCHANGED <<monVars, recVars, pipeVars, batchVars, perfVars>>

CollectorInit == ColInit /\ MonOff /\ RecOff /\ PipeOff /\ BatchOff /\ PerfOff

\* The collector used through its three operations.
SpecCollector == CollectorInit /\ [][ColNext]_vars

\* The collector and a caller that also writes to the values it was handed.
SpecSnapshot == CollectorInit /\ [][SnapNext]_vars

\* C17 as claimed: no write of the caller to a value it got from get_metrics
\* changes what get_metrics hands out afterwards.
C17_GetIsSnapshot == [][CallerWrites => GetAllView' = GetAllView]_vars

\* C18 as claimed: no operation of the collector raises to its caller.
C18_NeverRaises == ret.kind # "raised"

\* C29 as claimed: get_metrics on an operation name under which nothing is
\* stored leaves the stored metrics as they are, so that get_metrics()
\* hands out the same keys before and after it (the lookup
\* self.metrics[operation] on the defaultdict installs the name as a key).
C29_GetLeavesKeys ==
    [][(\E op \in Ops : op \notin DOMAIN cmap /\ ColGetOp(op))
          => DOMAIN GetAllView' = DOMAIN GetAllView]_vars

\* What the caller was handed holds no entry.
NoMetricsIn(r) == r.kind = "dict" /\ \A op \in DOMAIN r.map : heap[r.map[op]] = <<>>

\* C19: from clear_metrics until the next record_metric, get_metrics hands
\* out no entry, with or without an operation name, and the collector stores
\* none.
C19_ClearEmpties ==
    /\ phase = "cleared_read" => NoMetricsIn(ret)
    /\ phase \in {"cleared", "cleared_read"} =>
          \A op \in DOMAIN GetAllView : GetAllView[op] = <<>>

\* C19 witness: entries were recorded under both operations, the collector
\* was cleared, and a get_metrics after the clear has returned.
C19_Witness ==
    /\ nrec >= 2
    /\ phase = "cleared_read"
    /\ ret.kind = "dict"

(***************************************************************************)
(* EnhancedContentCreationService: create_content_with_pipeline and        *)
(* _execute_pipeline.  Each run makes three execute_with_monitoring calls  *)
(* on the shared ResourceMonitor, one per stage, for the stage functions   *)
(* of ContentCreationService.                                              *)
(*                                                                         *)
(* A context or result payload is a function from keys to values; a value  *)
(* is <<run, v>>: the run whose generator call produced it, and "" for an  *)
(* empty (falsy) value.                                                    *)
(***************************************************************************)
Runs == 1..NumRuns
Stages == {"script", "voiceover", "assets"}
RequiredFields == {"content_type", "title"}

\* Texts of the errors a generator reports or raises; opaque to the pipeline.
ErrorTexts == {"boom", "bang"}

Ok(data) == [success |-> TRUE, data |-> data, error |-> "None"]
Fail(e) == [success |-> FALSE, data |-> "None", error |-> e]
NoResult == [success |-> FALSE, data |-> "None", error |-> "no result"]

\* ServiceResult.failed
Failed(res) == ~res.success

\* context.get(key) is truthy
Truthy(c, key) == key \in DOMAIN c /\ c[key][2] # ""

\* func.__name__ of the stage function
StageFunc(s) ==
    CASE s = "script" -> "_generate_script"
      [] s = "voiceover" -> "_generate_voiceover"
      [] OTHER -> "_process_assets"

\* _execute_pipeline runs script, then voiceover, then assets.
AssetsBeforeVoiceover(s) ==
    CASE s = "script" -> "assets"
      [] s = "assets" -> "voiceover"
      [] OTHER -> "end"
SkipVoiceover(s) ==
    CASE s = "script" -> "assets"
      [] OTHER -> "end"
NextStage(s) ==
    CASE s = "script" -> "voiceover"
      [] s = "voiceover" -> "assets"
      [] OTHER -> "end"

\* The ServiceResults a stage function can return for run r on context c.
\* ContentCreationService._generate_script: the generator's failed result
\* is handed on, an exception becomes ServiceResult(False, error=str(e)).
ScriptResults(r, c) ==
    {Ok(("script" :> <<r, v>>) @@ ("script_metrics" :> <<r, "data">>)) : v \in {"text", ""}}
        \cup {Fail(e) : e \in ErrorTexts}

\* ContentCreationService._generate_voiceover
VoiceoverResults(r, c) ==
    IF ~Truthy(c, "script")
    THEN {Fail("Script not found in context")}
    ELSE {Ok(("voiceover" :> <<r, "data">>) @@ ("voiceover_metrics" :> <<r, "data">>))}
            \cup {Fail(e) : e \in ErrorTexts}

\* ContentCreationService._process_assets
AssetsResults(r, c) ==
    IF ~Truthy(c, "content")
    THEN {Fail("Content not found in context")}
    ELSE {Ok("processed_assets" :> <<r, "data">>)} \cup {Fail(e) : e \in ErrorTexts}

StageResults(r, s, c) ==
    CASE s = "script" -> ScriptResults(r, c)
      [] s = "voiceover" -> VoiceoverResults(r, c)
      [] OTHER -> AssetsResults(r, c)

\* _validate_content_request
AnyRequestValid(fields) == TRUE
ValidRequest(fields) == RequiredFields \subseteq fields

\* The context of a run after a stage handed back the failed result res:
\* "if result.failed: return result" comes before context.update, and the
\* stage functions only read the context they are given.
FailureKeptInContext(c, res) == ("error" :> <<0, res.error>>) @@ c
ContextOnFailure(c, res) == c

\* context = {'request': request}: a dict local to the _execute_pipeline
\* call of run r, whatever the contexts all of the other runs hold.
ContextOnInstance(r, all) ==
    LET others == {q \in DOMAIN all : q # r /\ all[q] # <<>>}
    IN IF others = {}
       THEN ("request" :> <<r, "data">>)
       ELSE ("request" :> <<r, "data">>) @@ all[CHOOSE q \in others : TRUE]
NewContext(r, all) == ("request" :> <<r, "data">>)

\* create_content_with_pipeline on a request that fails validation.
PipeReject(r) ==
    /\ ppc[r] = "new"
    /\ ~ValidRequest(req[r])
    /\ ppc' = [ppc EXCEPT ![r] = "rejected"]
    /\ result' = [result EXCEPT ![r] = Fail("Invalid request")]
    /\ UNCHANGED <<req, stage, ctx, hist, monVars>>

\* The picture of the monitor after run r makes a new execute call for the
\* stage function of s.
CallStage(r, s) ==
    /\ func' = [func EXCEPT ![r] = StageFunc(s)]
    /\ attempts' = [attempts EXCEPT ![r] = 0]
    /\ timedOut' = [timedOut EXCEPT ![r] = FALSE]
    /\ ncalls' = ncalls + 1
    /\ callId' = [callId EXCEPT ![r] = ncalls + 1]

\* create_content_with_pipeline on a valid request: _execute_pipeline builds
\* the context and makes the execute call of the script stage.
PipeBegin(r) ==
    /\ ppc[r] = "new"
    /\ ValidRequest(req[r])
    /\ ppc' = [ppc EXCEPT ![r] = "executing"]
    /\ ctx' = [ctx EXCEPT ![r] = NewContext(r, ctx)]
    /\ stage' = [stage EXCEPT ![r] = "script"]
    /\ hist' = [hist EXCEPT ![r]["script"] = "started"]
    /\ epc' = [epc EXCEPT ![r] = "waiting"]
    /\ CallStage(r, "script")
    /\ UNCHANGED <<req, result, maxWorkers, sem, rmMetrics>>

\* The stage function returns res.  The monitor records its metric and frees
\* the slot; the pipeline returns a failed result as it is, and otherwise
\* merges the data into the context and goes on to the next stage, or
\* returns the context once the last stage is done.
StageReturn(r, res) ==
    /\ ppc[r] = "executing"
    /\ epc[r] = "running"
    /\ res \in StageResults(r, stage[r], ctx[r])
    /\ rmMetrics' = RecordMetric(rmMetrics, func[r], MetricEntry(SuccessFlag("ok"), callId[r]))
    /\ sem' = sem + ReleaseOn("ok")
    /\ IF Failed(res)
       THEN /\ ppc' = [ppc EXCEPT ![r] = "failed"]
            /\ result' = [result EXCEPT ![r] = res]
            /\ hist' = [hist EXCEPT ![r][stage[r]] = "failed"]
            /\ epc' = [epc EXCEPT ![r] = "idle"]
            /\ ctx' = [ctx EXCEPT ![r] = ContextOnFailure(@, res)]
            /\ UNCHANGED <<stage, func, attempts, timedOut, ncalls, callId>>
       ELSE LET merged == res.data @@ ctx[r]
                next == NextStage(stage[r])
            IN /\ ctx' = [ctx EXCEPT ![r] = merged]
               /\ IF next = "end"
                  THEN /\ ppc' = [ppc EXCEPT ![r] = "completed"]
                       /\ result' = [result EXCEPT ![r] = Ok(merged)]
                       /\ hist' = [hist EXCEPT ![r][stage[r]] = "ok"]
                       /\ epc' = [epc EXCEPT ![r] = "idle"]
                       /\ UNCHANGED <<stage, func, attempts, timedOut, ncalls, callId>>
                  ELSE /\ stage' = [stage EXCEPT ![r] = next]
                       /\ hist' = [hist EXCEPT ![r][stage[r]] = "ok", ![r][next] = "started"]
                       /\ epc' = [epc EXCEPT ![r] = "waiting"]
                       /\ CallStage(r, next)
                       /\ UNCHANGED <<ppc, result>>
    /\ UNCHANGED <<req, maxWorkers>>

\* The call of the stage function raises (the stage functions take the
\* context only, and are called with the keyword arguments timeout and
\* max_retries as well).  The monitor records the failure, frees the slot
\* and raises again; nothing in the pipeline catches it.
StageRaise(r) ==
    /\ ppc[r] = "executing"
    /\ epc[r] = "running"
    /\ rmMetrics' = RecordMetric(rmMetrics, func[r], MetricEntry(SuccessFlag("raise"), callId[r]))
    /\ sem' = sem + ReleaseOn("raise")
    /\ ppc' = [ppc EXCEPT ![r] = "raised"]
    /\ hist' = [hist EXCEPT ![r][stage[r]] = "raised"]
    /\ epc' = [epc EXCEPT ![r] = "idle"]
    /\ UNCHANGED <<req, stage, ctx, result, maxWorkers, func, attempts, timedOut, ncalls, callId>>

PipeInit ==
    /\ maxWorkers \in 1..MaxWorkers
    /\ sem = maxWorkers
    /\ epc = [r \in Runs |-> "idle"]
    /\ func = [r \in Runs |-> "none"]
    /\ attempts = [r \in Runs |-> 0]
    /\ timedOut = [r \in Runs |-> FALSE]
    /\ ncalls = 0
    /\ callId = [r \in Runs |-> 0]
    /\ rmMetrics = <<>>
    /\ req \in [Runs -> SUBSET RequiredFields]
    /\ ppc = [r \in Runs |-> "new"]
    /\ stage = [r \in Runs |-> "none"]
    /\ ctx = [r \in Runs |-> <<>>]
    /\ hist = [r \in Runs |-> [s \in Stages |-> "notstarted"]]
    /\ result = [r \in Runs |-> NoResult]

PipeNext ==
    \/ \E r \in Runs : PipeReject(r) /\ UNCHANGED <<colVars, recVars, batchVars, perfVars>>
    \/ \E r \in Runs : PipeBegin(r) /\ UNCHANGED <<colVars, recVars, batchVars, perfVars>>
    \/ \E r \in Runs : ExecAdmit(r) /\ UNCHANGED <<colVars, recVars, pipeVars, batchVars, perfVars>>
    \/ \E r \in Runs : ExecDeadline(r) /\ UNCHANGED <<colVars, recVars, pipeVars, batchVars, perfVars>>
    \/ \E r \in Runs : \E res \in StageResults(r, stage[r], ctx[r]) :
            StageReturn(r, res) /\ UNCHANGED <<colVars, recVars, batchVars, perfVars>>
    \/ \E r \in Runs : StageRaise(r) /\ UNCHANGED <<colVars, recVars, batchVars, perfVars>>

PipelineInit == PipeInit /\ RecOff /\ ColOff /\ BatchOff /\ PerfOff

SpecPipeline == PipelineInit /\ [][PipeNext]_vars

\* The pipeline under the scheduling of a run whose external calls may never
\* respond: the steps the program takes by itself happen (a call is validated
\* and started, a waiting execute call is admitted once slots keep coming
\* free, time passes and the deadline of a running stage goes by), while
\* nothing obliges a stage function to return or raise.
RunStarts(r) ==
    (PipeReject(r) \/ PipeBegin(r)) /\ UNCHANGED <<colVars, recVars, batchVars, perfVars>>

DeadlinePasses(r) ==
    ExecDeadline(r) /\ UNCHANGED <<colVars, recVars, pipeVars, batchVars, perfVars>>

SpecPipelineFair ==
    /\ PipelineInit
    /\ [][PipeNext]_vars
    /\ \A r \in Runs :
          WF_vars(RunStarts(r)) /\ SF_vars(WaiterAdmitted(r)) /\ WF_vars(DeadlinePasses(r))

\* The stage has ended: its execute call returned or raised.
Finished(r, s) == hist[r][s] \in {"ok", "failed", "raised"}

\* The stage whose failed result ended the run.
FailedStage(r) == CHOOSE s \in Stages : hist[r][s] = "failed"

\* The keys the three stages put into the context.
StageKeys == {"script", "voiceover", "processed_assets"}

\* C7 as claimed: a run on a valid request ends either in a success whose
\* context holds the output of all three stages, or in a failure result that
\* comes from exactly one stage.
C7_SuccessOrOneStageFailure ==
    \A r \in Runs :
        ppc[r] \in {"completed", "failed", "raised"} =>
            \/ /\ ppc[r] = "completed"
               /\ result[r].success
               /\ StageKeys \subseteq DOMAIN result[r].data
            \/ /\ ppc[r] = "failed"
               /\ ~result[r].success
               /\ Cardinality({s \in Stages : hist[r][s] = "failed"}) = 1

\* C8 as claimed: the failure handed to the caller carries the identity of
\* the stage that failed, so two runs that failed in different stages never
\* get the same result.
C8_FailureNamesStage ==
    \A r1, r2 \in Runs :
        (ppc[r1] = "failed" /\ ppc[r2] = "failed" /\ FailedStage(r1) # FailedStage(r2))
            => result[r1] # result[r2]

\* C20: a request lacking content_type or title is never taken past
\* validation: its run makes no execute call, so it takes no slot and starts
\* no stage, and once it has ended its result is the failure "Invalid request".
C20_MalformedRejectedFirst ==
    \A r \in Runs :
        (\E f \in {"content_type", "title"} : f \notin req[r]) =>
            /\ ppc[r] \in {"new", "rejected"}
            /\ epc[r] = "idle" /\ callId[r] = 0 /\ attempts[r] = 0
            /\ \A s \in Stages : hist[r][s] = "notstarted"
            /\ ppc[r] = "rejected" => result[r] = Fail("Invalid request")

\* C20 witness: a request with a title and no content_type has been rejected
\* while the run of a valid request has a stage running.
C20_Witness ==
    \E r, q \in Runs :
        /\ req[r] = {"title"} /\ ppc[r] = "rejected"
        /\ ppc[q] = "executing" /\ epc[q] = "running"

\* The state of a run in terms of the pipeline state machine.  A run whose
\* stage returned a failed result and a run whose stage call raised have
\* both failed.
RunState(r) ==
    CASE ppc[r] = "new" -> "Pending"
      [] ppc[r] = "rejected" -> "Rejected"
      [] ppc[r] = "executing" -> "Running_" \o stage[r]
      [] ppc[r] = "completed" -> "Completed"
      [] OTHER -> "Failed"

\* The moves of the state machine.
Moves(a) ==
    CASE a = "Pending" -> {"Running_script", "Rejected"}
      [] a = "Running_script" -> {"Running_voiceover", "Failed"}
      [] a = "Running_voiceover" -> {"Running_assets", "Failed"}
      [] a = "Running_assets" -> {"Completed", "Failed"}
      [] OTHER -> {}

\* The stages that come after stage s.
Later(s) ==
    CASE s = "script" -> {"voiceover", "assets"}
      [] s = "voiceover" -> {"assets"}
      [] OTHER -> {}

\* C21: every step of a run is a move of the state machine Pending ->
\* Running(script) -> Running(voiceover) -> Running(assets) -> Completed, with
\* Failed reachable from every Running state; Completed and Failed are never
\* left; and after a stage has failed no later stage is ever started.
C21_StateMachine ==
    /\ [][\A r \in Runs : RunState(r)' = RunState(r) \/ RunState(r)' \in Moves(RunState(r))]_vars
    /\ [](\A r \in Runs : \A s \in Stages :
            hist[r][s] \in {"failed", "raised"} =>
                /\ RunState(r) = "Failed"
                /\ \A t \in Later(s) : hist[r][t] = "notstarted")

\* C21 witness: a run has failed in its voiceover stage after a successful
\* script stage, and its assets stage was never started.
C21_Witness ==
    \E r \in Runs :
        /\ ppc[r] = "failed"
        /\ hist[r] = [s \in Stages |-> CASE s = "script" -> "ok"
                                         [] s = "voiceover" -> "failed"
                                         [] OTHER -> "notstarted"]

C24_FailureLeavesContext ==
    /\ [][\A r \in Runs : \A s \in Stages :
            (hist[r][s] = "started" /\ hist'[r][s] # "ok") => ctx'[r] = ctx[r]]_vars
    /\ [](\A r \in Runs :
            ppc[r] \in {"failed", "raised"} =>
                DOMAIN ctx[r] =
                    {"request"}
                        \cup (IF hist[r]["script"] = "ok"
                              THEN {"script", "script_metrics"} ELSE {})
                        \cup (IF hist[r]["voiceover"] = "ok"
                              THEN {"voiceover", "voiceover_metrics"} ELSE {}))

\* C24 witness: a run failed in its voiceover stage, and its context holds
\* the request and the output of the script stage only.
C24_Witness ==
    \E r \in Runs :
        /\ ppc[r] = "failed" /\ hist[r]["voiceover"] = "failed"
        /\ DOMAIN ctx[r] = {"request", "script", "script_metrics"}

\* C25: every value in the context of a run was put there by that run (its
\* own request, the output of its own stages), and a step that changes the
\* context of one run leaves the context of every other run as it was.
C25_ContextsSeparate ==
    /\ [](\A r \in Runs : \A k \in DOMAIN ctx[r] : ctx[r][k][1] = r)
    /\ [][\A r, q \in Runs :
            (r # q /\ ctx'[r] # ctx[r]) => ctx'[q] = ctx[q]]_vars

\* C25 witness: two runs are executing together, each past its own script
\* stage with the script in its context.
C25_Witness ==
    \E r, q \in Runs :
        /\ r # q
        /\ ppc[r] = "executing" /\ ppc[q] = "executing"
        /\ "script" \in DOMAIN ctx[r] /\ "script" \in DOMAIN ctx[q]

\* C10: within a run voiceover is not started before script has finished,
\* assets is not started before voiceover has finished, and no two stages of
\* the run are in progress together.
C10_StagesInOrder ==
    \A r \in Runs :
        /\ hist[r]["voiceover"] # "notstarted" => Finished(r, "script")
        /\ hist[r]["assets"] # "notstarted" => Finished(r, "voiceover")
        /\ Cardinality({s \in Stages : hist[r][s] = "started"}) <= 1

\* C10 witness: the work of the assets stage is running after script and
\* voiceover have both ended, while the other run is still in its script stage.
C10_Witness ==
    \E r, q \in Runs :
        /\ hist[r] = [s \in Stages |-> IF s = "assets" THEN "started" ELSE "ok"]
        /\ stage[r] = "assets" /\ epc[r] = "running"
        /\ hist[q]["script"] = "started"

(***************************************************************************)
(* Batch creation: ContentController.create_content_batch admits the       *)
(* batch, ContentOrchestrationService.create_content_batch generates the   *)
(* scripts, then the voiceovers, combines them into content items and      *)
(* hands these to ContentManagementService.process_batch_content.          *)
(*                                                                         *)
(* Requests are numbered 1..bLen.  A generated script or voiceover is      *)
(* represented by the number of the request it derives from, None by 0.    *)
(* What goes wrong for a request is fixed with the input: the request is   *)
(* invalid, its script generation fails, the voiceover generation for its  *)
(* script fails, or the write of its content item fails.  Requests past    *)
(* VaryLen meet no failure.                                                *)
(***************************************************************************)
ItemOutcomes == {"ok", "invalid", "script_fail", "voice_fail", "save_fail"}

OutcomeOf(i) == IF i \in DOMAIN bOut THEN bOut[i] ELSE "ok"

\* self.content_settings.get('batch_size', 10)
BatchSize == ContentSetting("batch_size", 10)

\* len(batch_data) > batch_size
OverLimitNever(n) == FALSE
OverLimit(n) == n > BatchSize

\* error_msg of the size check
SizeError == "Batch size exceeds maximum allowed (" \o ToString(BatchSize) \o ")"

\* ContentController._validate_content_data
ValidItem(i) == OutcomeOf(i) # "invalid"

BatchFail(e) == [success |-> FALSE, results |-> <<>>, error |-> e]
BatchOk(rs) == [success |-> TRUE, results |-> rs, error |-> "None"]

\* The items the validation loop has given a creator by the time it ends on
\* a batch of n items: "item['creator'] = user" follows the validation of
\* each item, so every item before the first invalid one has it.
CreatorsSet(n) ==
    {i \in 1..n : \A j \in 1..i : ValidItem(j)}

\* ContentController.create_content_batch up to the call of the service: the
\* size check, then the validation of every item.
ControllerReject ==
    /\ bpc = "new"
    /\ OverLimit(bLen) \/ \E i \in 1..bLen : ~ValidItem(i)
    /\ bResult' = IF OverLimit(bLen)
                  THEN BatchFail(SizeError)
                  ELSE BatchFail("Invalid content in batch")
    /\ creators' = IF OverLimit(bLen) THEN creators ELSE CreatorsSet(bLen)
    /\ bpc' = "rejected"
    /\ UNCHANGED <<bLen, bOut, scriptRes, voiceRes, scriptCalls, voiceCalls, writes, bMetrics, inFlight>>

ControllerAdmit ==
    /\ bpc = "new"
    /\ ~OverLimit(bLen)
    /\ \A i \in 1..bLen : ValidItem(i)
    /\ creators' = CreatorsSet(bLen)
    /\ bpc' = "scripts"
    /\ UNCHANGED <<bLen, bOut, scriptRes, voiceRes, bResult, scriptCalls, voiceCalls, writes, bMetrics, inFlight>>

\* Threads of a ThreadPoolExecutor() built without max_workers:
\* min(32, os.cpu_count() + 4).
PoolSize == IF NumCpus + 4 < 32 THEN NumCpus + 4 ELSE 32

\* batch_generate_scripts has submitted generate_script for every config; a
\* free thread of its pool starts the next submitted call.
ScriptStart ==
    /\ bpc = "scripts"
    /\ scriptCalls < bLen
    /\ inFlight < PoolSize
    /\ scriptCalls' = scriptCalls + 1
    /\ inFlight' = inFlight + 1
    /\ UNCHANGED <<creators, bLen, bOut, bpc, scriptRes, voiceRes, bResult, voiceCalls, writes, bMetrics>>

\* A generator call running in a pool thread ends.
GeneratorEnd ==
    /\ bpc \in {"scripts", "voiceovers"}
    /\ inFlight > 0
    /\ inFlight' = inFlight - 1
    /\ UNCHANGED <<creators, bLen, bOut, bpc, scriptRes, voiceRes, bResult, scriptCalls, voiceCalls,
                   writes, bMetrics>>

\* ContentGenerationUtility.batch_generate_scripts returns once one
\* generate_script call per config has ended; the result list holds the data
\* of a success and None for a failure, in the order of the configs.
GenerateScripts ==
    /\ bpc = "scripts"
    /\ scriptCalls = bLen
    /\ inFlight = 0
    /\ scriptRes' = [i \in 1..bLen |-> IF OutcomeOf(i) = "script_fail" THEN 0 ELSE i]
    /\ bpc' = "voiceovers"
    /\ UNCHANGED <<creators, bLen, bOut, voiceRes, bResult, scriptCalls, voiceCalls, writes, bMetrics,
                   inFlight>>

\* voiceover_configs: the scripts that are not None, in order.
VoiceoverConfigs(sr) == SelectSeq(sr, LAMBDA j : j # 0)

\* batch_generate_voiceovers has submitted generate_voiceover for every
\* voiceover config; a free thread of its pool starts the next one.
VoiceoverStart ==
    /\ bpc = "voiceovers"
    /\ voiceCalls < Len(VoiceoverConfigs(scriptRes))
    /\ inFlight < PoolSize
    /\ voiceCalls' = voiceCalls + 1
    /\ inFlight' = inFlight + 1
    /\ UNCHANGED <<creators, bLen, bOut, bpc, scriptRes, voiceRes, bResult, scriptCalls, writes, bMetrics>>

\* VoiceoverGenerationUtility.batch_generate_voiceovers returns once every
\* call over the configs has ended.
GenerateVoiceovers ==
    /\ bpc = "voiceovers"
    /\ LET cfgs == VoiceoverConfigs(scriptRes)
       IN /\ voiceCalls = Len(cfgs)
          /\ inFlight = 0
          /\ voiceRes' = [k \in 1..Len(cfgs) |->
                            IF OutcomeOf(cfgs[k]) = "voice_fail" THEN 0 ELSE cfgs[k]]
    /\ bpc' = "combine"
    /\ UNCHANGED <<creators, bLen, bOut, scriptRes, bResult, scriptCalls, voiceCalls, writes, bMetrics,
                   inFlight>>

\* "script_results.data[i] and voiceover_results.data[i]" raises IndexError
\* when script i is there and the voiceover list is shorter than i.
IndexError(sr, vr) == \E i \in 1..Len(sr) : sr[i] # 0 /\ i > Len(vr)

\* content_items: one item for every i whose script and whose i-th voiceover
\* are both there, built from config i, script i and voiceover i of the list.
ContentItems(sr, vr) ==
    LET all == [i \in 1..Len(sr) |->
                  [req |-> i, script |-> sr[i],
                   voiceover |-> IF i <= Len(vr) THEN vr[i] ELSE 0]]
    IN SelectSeq(all, LAMBDA it : it.script # 0 /\ it.voiceover # 0)

\* ContentManagementService.process_batch_content: one result per content
\* item, a failed one when _process_single_content could not write it.
ProcessBatchContent(items) ==
    [k \in 1..Len(items) |->
        [req |-> items[k].req, script |-> items[k].script,
         voiceover |-> items[k].voiceover,
         success |-> OutcomeOf(items[k].req) # "save_fail"]]

\* result.data of a successful batch result: the dict {'results': results}.
ResultData(res) == [results |-> res.results]

\* len(d) of a dict: the number of its keys.
DictLen(d) == Cardinality(DOMAIN d)

\* The counts _create_batch_with_monitoring records for the result of
\* create_content_batch on a batch of n configs.
BatchMetrics(n, res) ==
    [total |-> n,
     successful |-> IF res.success THEN DictLen(ResultData(res)) ELSE 0,
     failed |-> IF res.success THEN n - DictLen(ResultData(res)) ELSE n]

\* "async with self._batch_monitor()": _batch_monitor is a coroutine
\* function, and entering its coroutine as a context manager raises before
\* create_content_batch is called; nothing on the way to the caller of the
\* controller catches it.
MonitorEnterRaise ==
    /\ bpc = "scripts"
    /\ scriptCalls = 0
    /\ bpc' = "raised"
    /\ UNCHANGED <<creators, bLen, bOut, scriptRes, voiceRes, bResult, scriptCalls, voiceCalls, writes, bMetrics, inFlight>>

\* The rest of create_content_batch: the loop over the configs, then
\* process_batch_content, whose result is returned; an exception in the
\* loop is caught and fails the whole batch.  The result goes back to
\* _create_batch_with_monitoring, which records the counts.
CombineAndProcess ==
    /\ bpc = "combine"
    /\ IF IndexError(scriptRes, voiceRes)
       THEN /\ bResult' = BatchFail("list index out of range")
            /\ UNCHANGED writes
       ELSE LET items == ContentItems(scriptRes, voiceRes)
            IN /\ bResult' = BatchOk(ProcessBatchContent(items))
               /\ writes' = writes + Len(items)
    /\ bMetrics' = BatchMetrics(bLen, bResult')
    /\ bpc' = "done"
    /\ UNCHANGED <<creators, bLen, bOut, scriptRes, voiceRes, scriptCalls, voiceCalls, inFlight>>

\* An exception inside create_content_batch once the scripts have been
\* generated (awaiting the value a batch generator returned, which is a plain
\* ServiceResult, raises TypeError): "except Exception" turns it into a
\* failure of the whole batch.
BatchRaise ==
    /\ bpc \in {"voiceovers", "combine"}
    /\ voiceCalls = 0 \/ bpc = "combine"
    /\ inFlight = 0
    /\ bResult' = BatchFail("exception")
    /\ bMetrics' = BatchMetrics(bLen, bResult')
    /\ bpc' = "done"
    /\ UNCHANGED <<creators, bLen, bOut, scriptRes, voiceRes, scriptCalls, voiceCalls, writes, inFlight>>

BatchInit ==
    /\ bLen \in 0..MaxBatchLen
    /\ bOut \in [1..VaryLen -> ItemOutcomes]
    /\ \A i \in 1..VaryLen : i > bLen => bOut[i] = "ok"
    /\ bpc = "new"
    /\ scriptRes = <<>>
    /\ voiceRes = <<>>
    /\ bResult = BatchFail("no result")
    /\ scriptCalls = 0
    /\ voiceCalls = 0
    /\ writes = 0
    /\ bMetrics = <<>>
    /\ inFlight = 0
    /\ creators = {}

BatchNext ==
    \/ ControllerReject /\ UNCHANGED <<colVars, monVars, recVars, pipeVars, perfVars>>
    \/ ControllerAdmit /\ UNCHANGED <<colVars, monVars, recVars, pipeVars, perfVars>>
    \/ ScriptStart /\ UNCHANGED <<colVars, monVars, recVars, pipeVars, perfVars>>
    \/ GeneratorEnd /\ UNCHANGED <<colVars, monVars, recVars, pipeVars, perfVars>>
    \/ GenerateScripts /\ UNCHANGED <<colVars, monVars, recVars, pipeVars, perfVars>>
    \/ VoiceoverStart /\ UNCHANGED <<colVars, monVars, recVars, pipeVars, perfVars>>
    \/ GenerateVoiceovers /\ UNCHANGED <<colVars, monVars, recVars, pipeVars, perfVars>>
    \/ CombineAndProcess /\ UNCHANGED <<colVars, monVars, recVars, pipeVars, perfVars>>
    \/ BatchRaise /\ UNCHANGED <<colVars, monVars, recVars, pipeVars, perfVars>>
    \/ MonitorEnterRaise /\ UNCHANGED <<colVars, monVars, recVars, pipeVars, perfVars>>

BatchSpecInit == BatchInit /\ MonOff /\ RecOff /\ ColOff /\ PipeOff /\ PerfOff

SpecBatch == BatchSpecInit /\ [][BatchNext]_vars

\* C2 as claimed: an admitted batch returns a result sequence with one entry
\* per request, whatever failed.
C2_OneResultPerRequest ==
    bpc = "done" => (bResult.success /\ Len(bResult.results) = bLen)

\* C3 as claimed: entry i of the batch result is the outcome of request i,
\* its script and its voiceover both deriving from request i.
C3_ResultsAligned ==
    (bpc = "done" /\ bResult.success) =>
        \A i \in 1..Len(bResult.results) :
            /\ bResult.results[i].req = i
            /\ bResult.results[i].script = i
            /\ bResult.results[i].voiceover = i

\* C11 as claimed: whatever fails for single requests, the batch ends as a
\* success whose results hold, for every request, an entry of that request:
\* a failure for a request whose step failed, a success for every other.
C11_ItemFailureIsolated ==
    (bpc = "done" /\ bResult.error # "exception") =>
        /\ bResult.success
        /\ \A i \in 1..bLen :
              \E k \in 1..Len(bResult.results) :
                  /\ bResult.results[k].req = i
                  /\ bResult.results[k].success = (OutcomeOf(i) = "ok")

\* The requests of the batch for which nothing fails.
OkItems == {i \in 1..bLen : OutcomeOf(i) = "ok"}

\* C12 as claimed: the recorded counts are total = number of requests,
\* successful = number of requests that succeeded, failed = the rest.
C12_SummaryCounts ==
    (bpc = "done" /\ bResult.error # "exception") =>
        /\ bMetrics.total = bLen
        /\ bMetrics.successful = Cardinality(OkItems)
        /\ bMetrics.failed = bLen - Cardinality(OkItems)

\* C16 as claimed: the generator calls of a batch that are in flight together
\* never number more than the max_workers of the shared ResourceMonitor.
C16_BatchWithinBudget == inFlight <= ConfiguredMaxWorkers

\* C5: a batch longer than the configured max_batch_size is never admitted:
\* it ends rejected with a failure, and no script generator call, voiceover
\* generator call or write is made for it.
C5_OverLimitRejected ==
    bLen > ContentSettings["max_batch_size"] =>
        /\ bpc \in {"new", "rejected"}
        /\ bpc = "rejected" => ~bResult.success
        /\ scriptCalls = 0 /\ voiceCalls = 0 /\ writes = 0

\* C5 witness: a batch of max_batch_size + 1 valid requests has been rejected
\* for its size.
C5_Witness ==
    /\ bLen = ContentSettings["max_batch_size"] + 1
    /\ \A i \in 1..bLen : ValidItem(i)
    /\ bpc = "rejected"
    /\ bResult.error = SizeError

\* C27 as claimed: a batch of 1 to max_batch_size items is never rejected
\* for its size (the controller compares the length with the setting
\* 'batch_size', which the content settings do not hold, so with 10).
C27_WithinMaxAdmitted ==
    (bLen >= 1 /\ bLen <= ContentSettings["max_batch_size"]) =>
        ~(bpc = "rejected" /\ bResult.error = SizeError)

\* C28 as claimed: a batch the controller has rejected, for its size or for
\* an invalid item, has no item with a creator (the loop gives every item
\* its creator as soon as that item is validated, so the items before the
\* first invalid one have it when the batch is rejected).
C28_RejectLeavesItems ==
    bpc = "rejected" => creators = {}

(***************************************************************************)
(* PerformanceMonitor.monitor(operation_name): the decorator and the       *)
(* wrapper it puts around a function.  async_wrapper and sync_wrapper have *)
(* the same body but for the await; callers run side by side (tasks of the *)
(* event loop, threads), each in its own call of a wrapper.                *)
(***************************************************************************)
WrapCallers == 1..NumWrapCallers

\* The operation names decorators are built with.
OperationNames == {"create_content_pipeline", "cache_operation"}

\* How the wrapped function can end: it returns, it raises an Exception, or
\* it raises a BaseException that is no Exception (asyncio.CancelledError,
\* KeyboardInterrupt, SystemExit).
FuncOutcomes == {"return", "exception", "base_exception"}

\* Positions of a caller whose call of the wrapper has ended.
WrapEnded == {"returned", "raised_exception", "raised_base_exception"}

\* What the wrapper hands to its caller: the result, or the exception of
\* the wrapped function ("raise e"; a BaseException passes untouched).
WrapEndOf(out) ==
    CASE out = "return" -> "returned"
      [] out = "exception" -> "raised_exception"
      [] OTHER -> "raised_base_exception"

\* success = True, set to False by "except Exception" only.
FlagStaysTrue(out) == TRUE
MonitoredFlag(out) == out # "exception"

\* The caller calls the function decorated with monitor(name): the wrapper
\* takes start_time, sets success = True and calls (awaits) the function.
WrapCall(p, name) ==
    /\ wpc[p] = "idle"
    /\ wcalls < MaxWrapCalls
    /\ wpc' = [wpc EXCEPT ![p] = "in_func"]
    /\ wname' = [wname EXCEPT ![p] = name]
    /\ wid' = [wid EXCEPT ![p] = wcalls + 1]
    /\ wflag' = [wflag EXCEPT ![p] = TRUE]
    /\ wcalls' = wcalls + 1
    /\ UNCHANGED <<wout, pmMetrics>>

\* The wrapped function ends; the try statement goes to its finally block.
WrapFuncEnds(p, out) ==
    /\ wpc[p] = "in_func"
    /\ wpc' = [wpc EXCEPT ![p] = "finally"]
    /\ wout' = [wout EXCEPT ![p] = out]
    /\ wflag' = [wflag EXCEPT ![p] = MonitoredFlag(out)]
    /\ UNCHANGED <<wname, wid, wcalls, pmMetrics>>

\* The finally block: record_metric(operation_name, duration, success), then
\* the return or the raise that was pending goes on to the caller.
WrapFinally(p) ==
    /\ wpc[p] = "finally"
    /\ pmMetrics' = RecordMetric(pmMetrics, wname[p], MetricEntry(wflag[p], wid[p]))
    /\ wpc' = [wpc EXCEPT ![p] = WrapEndOf(wout[p])]
    /\ UNCHANGED <<wname, wid, wout, wflag, wcalls>>

\* The caller has the result (or the exception) and may call again.
WrapDone(p) ==
    /\ wpc[p] \in WrapEnded
    /\ wpc' = [wpc EXCEPT ![p] = "idle"]
    /\ wname' = [wname EXCEPT ![p] = "none"]
    /\ wid' = [wid EXCEPT ![p] = 0]
    /\ wout' = [wout EXCEPT ![p] = "none"]
    /\ wflag' = [wflag EXCEPT ![p] = TRUE]
    /\ UNCHANGED <<wcalls, pmMetrics>>

PerfInit ==
    /\ wpc = [p \in WrapCallers |-> "idle"]
    /\ wname = [p \in WrapCallers |-> "none"]
    /\ wid = [p \in WrapCallers |-> 0]
    /\ wout = [p \in WrapCallers |-> "none"]
    /\ wflag = [p \in WrapCallers |-> TRUE]
    /\ wcalls = 0
    /\ pmMetrics = <<>>

PerfNext ==
    \/ \E p \in WrapCallers, name \in OperationNames :
            WrapCall(p, name) /\ UNCHANGED <<monVars, recVars, colVars, pipeVars, batchVars>>
    \/ \E p \in WrapCallers, out \in FuncOutcomes :
            WrapFuncEnds(p, out) /\ UNCHANGED <<monVars, recVars, colVars, pipeVars, batchVars>>
    \/ \E p \in WrapCallers :
            WrapFinally(p) /\ UNCHANGED <<monVars, recVars, colVars, pipeVars, batchVars>>
    \/ \E p \in WrapCallers :
            WrapDone(p) /\ UNCHANGED <<monVars, recVars, colVars, pipeVars, batchVars>>

PerfSpecInit == PerfInit /\ MonOff /\ RecOff /\ ColOff /\ PipeOff /\ BatchOff

SpecPerf == PerfSpecInit /\ [][PerfNext]_vars

====
